---------------------------- MODULE Spec2Model ----------------------------
(***************************************************************************)
(* Model of the monzo-crawler crawl engine:                                *)
(*   crawler/crawler.py        Crawler (scheduler, fetcher, worker tasks)  *)
(*   crawler/url_manager.py    URLManager (admission controller)           *)
(*   crawler/robots_parser.py  RobotsParser (robots policy engine)         *)
(*                                                                         *)
(* A URL is the record of the parts urlparse yields for it (netloc, path); *)
(* a path is a sequence of one-character strings.  The web is a fixed map  *)
(* from URL to what a GET of it yields.                                    *)
(***************************************************************************)
EXTENDS Integers, Sequences, FiniteSets, TLC

\* ------------------------------------------------------------------ bounds
MaxDepthBound   == 2    \* max_depth ranges over 0..MaxDepthBound
MaxWorkersBound == 2    \* max_workers ranges over 1..MaxWorkersBound
MaxBad          == 1    \* pages of a web whose GET fails or has empty text
MaxLines        == 3    \* lines of a robots document (parser specification)

\* ------------------------------------------------------------- URL universe
Dom   == "monzo.com"
Other == "otherdomain.com"
Sub   == "sub.monzo.com"

Url(n, p) == [netloc |-> n, path |-> p]

S == Url(Dom, <<"/">>)
A == Url(Dom, <<"/", "a">>)
B == Url(Dom, <<"/", "b">>)
C == Url(Dom, <<"/", "a", "b">>)
X == Url(Other, <<"/", "a">>)
Y == Url(Sub, <<"/", "b">>)

URLs == {S, A, B, C, X, Y}

\* urlparse(url).netloc and urlparse(url).path
Netloc(u) == u.netloc
Path(u)   == u.path



\* ------------------------------------------------- robots policy engine
\* A line of a robots document after strip(): its directive and the text
\* after the first ":" (stripped).  "blank" stands for an empty or "#" line,
\* "other" for any other directive.
UALine(agent) == [kind |-> "user-agent", value |-> agent]
DisLine(path) == [kind |-> "disallow", value |-> path]
BlankLine     == [kind |-> "blank", value |-> ""]

\* rules[agent] = paths
Put(rules, agent, paths) ==
    [a \in DOMAIN rules \cup {agent} |-> IF a = agent THEN paths ELSE rules[a]]

NoRules == [a \in {} |-> {}]

\* The loop of _parse_robots_txt over the remaining lines, then the final
\* conditional store.
RECURSIVE ParseLines(_, _, _, _)
ParseLines(lines, rules, current_user_agent, disallowed_paths) ==
    IF lines = <<>>
    THEN IF current_user_agent \notin DOMAIN rules
         THEN Put(rules, current_user_agent, disallowed_paths)
         ELSE rules
    ELSE LET line == Head(lines) IN
         IF line.kind = "user-agent"
         THEN ParseLines(Tail(lines), Put(rules, line.value, disallowed_paths),
                         line.value, {})
         ELSE IF line.kind = "disallow"
         THEN ParseLines(Tail(lines), rules, current_user_agent,
                         disallowed_paths \cup {line.value})
         ELSE ParseLines(Tail(lines), rules, current_user_agent,
                         disallowed_paths)

_parse_robots_txt(robots_txt) == ParseLines(robots_txt, NoRules, "*", {})

\* re.match(rf"^{rule}", path) for rules over letters, "/" and ".":
\* "." matches any one character, every other character matches itself,
\* and the match is anchored at the start of the path only.
RECURSIVE ReMatch(_, _)
ReMatch(rule, path) ==
    IF rule = <<>> THEN TRUE
    ELSE IF path = <<>> THEN FALSE
    ELSE /\ (Head(rule) = "." \/ Head(rule) = Head(path))
         /\ ReMatch(Tail(rule), Tail(path))

\* RobotsParser.is_allowed on a given rules mapping
is_allowed(rules, url, user_agent) ==
    LET rs == IF user_agent \in DOMAIN rules THEN rules[user_agent] ELSE {}
    IN  \A rule \in rs : ~ReMatch(rule, Path(url))

\* ------------------------------------------------------------ URLManager
\* mutants of should_visit: the domain test dropped; the visited test dropped
should_visit_AnyDomain(allowed_domain, visited_urls, url) ==
    url \notin visited_urls

should_visit_IgnoresVisited(allowed_domain, visited_urls, url) ==
    Netloc(url) = allowed_domain

should_visit(allowed_domain, visited_urls, url) ==
    Netloc(url) = allowed_domain /\ url \notin visited_urls

\* mutant of mark_visited: a second call takes the URL out again
mark_visited_Toggle(visited_urls, url) ==
    IF url \in visited_urls THEN visited_urls \ {url} ELSE visited_urls \cup {url}

mark_visited(visited_urls, url) == visited_urls \cup {url}

add_links(allowed_domain, visited_urls, links) ==
    {link \in links : should_visit(allowed_domain, visited_urls, link)}

\* ------------------------------------------------------------ the web
Ok(ls) == [status |-> "ok", links |-> ls]

\* link graphs: a diamond with a cycle and out-of-domain links, a chain
\* with a self-link, and a fan
Graph1 == [u \in URLs |->
             IF u = S THEN Ok({A, B, X})
             ELSE IF u = A THEN Ok({C, S})
             ELSE IF u = B THEN Ok({C, Y})
             ELSE IF u = C THEN Ok({A})
             ELSE Ok({})]
Graph2 == [u \in URLs |->
             IF u = S THEN Ok({A})
             ELSE IF u = A THEN Ok({B})
             ELSE IF u = B THEN Ok({C})
             ELSE IF u = C THEN Ok({C, S})
             ELSE Ok({})]
Graph3 == [u \in URLs |->
             IF u = S THEN Ok({A, B, C})
             ELSE IF u = A THEN Ok({B, X})
             ELSE IF u = B THEN Ok({A})
             ELSE IF u = C THEN Ok({})
             ELSE Ok({})]
Graphs == {Graph1, Graph2, Graph3}

\* a page whose GET raises a request error (or has an error status), and a
\* page whose GET succeeds with empty text
Failing   == [status |-> "fail", links |-> {}]
EmptyPage == [status |-> "empty", links |-> {}]

Pages == {u \in URLs : Netloc(u) = Dom}

Webs == {[u \in URLs |-> IF u \in bad THEN (IF u \in empties THEN EmptyPage ELSE Failing)
                         ELSE g[u]] :
            <<g, bad, empties>> \in
              {t \in Graphs \X (SUBSET Pages) \X (SUBSET Pages) :
                  /\ Cardinality(t[2]) <= MaxBad
                  /\ t[3] \subseteq t[2]}}

\* what the single GET of robots.txt can yield
DocA == <<DisLine(<<"/", "a">>)>>
DocB == <<UALine("*"), DisLine(<<"/", "b">>)>>
\* no response yet
NoResponse == [raised |-> FALSE, status |-> 0, text |-> <<>>]

RobotsResponses ==
    {[raised |-> TRUE,  status |-> 0,   text |-> <<>>],
     [raised |-> FALSE, status |-> 404, text |-> <<>>],
     [raised |-> FALSE, status |-> 204, text |-> <<>>],
     [raised |-> FALSE, status |-> 200, text |-> DocA],
     [raised |-> FALSE, status |-> 200, text |-> DocB]}

\* --------------------------------------------------------- output order
\* the character codes that order URL strings
CharRank(c) ==
    CASE c = "." -> 46 [] c = "/" -> 47 [] c = ":" -> 58
      [] c = "a" -> 97 [] c = "b" -> 98 [] c = "c" -> 99 [] c = "d" -> 100
      [] c = "e" -> 101 [] c = "h" -> 104 [] c = "i" -> 105 [] c = "m" -> 109
      [] c = "n" -> 110 [] c = "o" -> 111 [] c = "p" -> 112 [] c = "r" -> 114
      [] c = "s" -> 115 [] c = "t" -> 116 [] c = "u" -> 117 [] c = "z" -> 122
      [] OTHER -> 0

NetlocChars(n) ==
    CASE n = Dom   -> <<"m","o","n","z","o",".","c","o","m">>
      [] n = Other -> <<"o","t","h","e","r","d","o","m","a","i","n",".","c","o","m">>
      [] n = Sub   -> <<"s","u","b",".","m","o","n","z","o",".","c","o","m">>

\* the URL string
Str(u) == <<"h","t","t","p","s",":","/","/">> \o NetlocChars(Netloc(u)) \o Path(u)

RECURSIVE StrLess(_, _)
StrLess(s, t) ==
    IF t = <<>> THEN FALSE
    ELSE IF s = <<>> THEN TRUE
    ELSE IF Head(s) = Head(t) THEN StrLess(Tail(s), Tail(t))
    ELSE CharRank(Head(s)) < CharRank(Head(t))

RECURSIVE sorted_Descending(_)
RECURSIVE sorted(_)
\* mutant of sorted: the largest string first
sorted_Descending(set) ==
    IF set = {} THEN <<>>
    ELSE LET m == CHOOSE x \in set : \A y \in set \ {x} : StrLess(Str(y), Str(x))
         IN  <<m>> \o sorted_Descending(set \ {m})

\* sorted(self.visited)
sorted(set) ==
    IF set = {} THEN <<>>
    ELSE LET m == CHOOSE x \in set : \A y \in set \ {x} : StrLess(Str(x), Str(y))
         IN  <<m>> \o sorted(set \ {m})

\* ----------------------------------------------------------------- state
VARIABLES
    web,            \* environment: URL -> what a GET of it yields
    start_url,      \* Crawler.start_url
    allowed_domain, \* Crawler.allowed_domain = URLManager.allowed_domain
    max_depth,      \* Crawler.max_depth
    max_workers,    \* Crawler.max_workers
    robots_parser,  \* Crawler.robots_parser: None or a RobotsParser
    queue,          \* Crawler.queue: sequence of [url, depth]
    visited,        \* Crawler.visited
    visited_urls,   \* URLManager.visited_urls
    queue_lock,     \* holder of Crawler.queue_lock
    visited_lock,   \* holder of Crawler.visited_lock
    pool,           \* work items submitted to the executor, in submit order
    futures,        \* run(): indices of the level's futures not yet popped
    pc,             \* position of the scheduler thread
    n,              \* run(): iterations left of the drain loop
    cur,            \* run(): the future whose links are being enqueued
    pending_links,  \* run(): links of cur still to be looked at
    writes,         \* number of calls of write_urls_to_file
    level_steps,    \* history: iterations of the while loop of run() entered
    robots_response,\* history: what the GET of robots.txt yielded
    output,         \* lines of the output file
    robots_txt,     \* the text the RobotsParser was constructed from
    marked,         \* history: URLs mark_visited has been called with
    call            \* the last call on a stand-alone URLManager / RobotsParser

vars == <<web, start_url, allowed_domain, max_depth, max_workers, robots_parser,
          queue, visited, visited_urls, queue_lock, visited_lock, pool, futures,
          pc, n, cur, pending_links, writes, level_steps, robots_response,
          output, robots_txt, marked, call>>

config    == <<web, start_url, allowed_domain, max_depth, max_workers>>
schedVars == <<pc, n, cur, pending_links, futures>>

NoCall == [op |-> "none"]

\* lock holders: nobody, the scheduler thread, or the index of a work item
Free  == 0
Sched == -1

\* Optional[RobotsParser]
None == [installed |-> FALSE, rules |-> NoRules]
RobotsParser(text) == [installed |-> TRUE, rules |-> _parse_robots_txt(text)]

Entry(u, d) == [url |-> u, depth |-> d]

\* a work item: the arguments of crawl, the position of the worker in it,
\* the number of session.get calls it made for the page, the exception it
\* ended with and the value it returned
NewTask(u, d) ==
    [url |-> u, depth |-> d, pc |-> "queued", req |-> 0, err |-> "none",
     result |-> {}]

Executing(t) == t.pc \in {"fetch", "lock", "mark", "add", "parse"}
Running      == Cardinality({i \in DOMAIN pool : Executing(pool[i])})

\* -------------------------------------------------------------- Crawler
\* Crawler.__init__ up to the robots request
Init ==
    /\ web \in Webs
    /\ start_url = S
    /\ allowed_domain = Netloc(S)
    /\ max_depth \in 0..MaxDepthBound
    /\ max_workers \in 1..MaxWorkersBound
    /\ robots_parser = None
    /\ queue = <<>>
    /\ visited = {}
    /\ visited_urls = {}
    /\ queue_lock = Free
    /\ visited_lock = Free
    /\ pool = <<>>
    /\ futures = {}
    /\ pc = "construct"
    /\ n = 0
    /\ cur = 0
    /\ pending_links = {}
    /\ writes = 0
    /\ level_steps = 0
    /\ robots_response = NoResponse
    /\ output = <<>>
    /\ robots_txt = <<>>
    /\ marked = {}
    /\ call = NoCall

\* mutant of _load_robots_txt: every 2xx response installs a policy engine
load_robots_txt_Any2xx(response) ==
    IF response.raised THEN None
    ELSE IF response.status >= 400 THEN None
    ELSE IF response.status < 300 THEN RobotsParser(response.text)
    ELSE None

\* Crawler._load_robots_txt
load_robots_txt(response) ==
    IF response.raised THEN None                        \* session.get raised
    ELSE IF response.status >= 400 THEN None            \* raise_for_status raised
    ELSE IF response.status = 200 THEN RobotsParser(response.text)
    ELSE None

LoadRobotsTxt ==
    /\ pc = "construct"
    /\ \E response \in RobotsResponses :
          /\ robots_parser' = load_robots_txt(response)
          /\ robots_txt' = IF robots_parser'.installed THEN response.text ELSE <<>>
          /\ robots_response' = response
    /\ pc' = "run"
    /\ UNCHANGED <<config, queue, visited, visited_urls, queue_lock,
                   visited_lock,
                   pool, futures, n, cur, pending_links, writes, level_steps,
                   output, marked, call>>

\* run(): self.queue.append((self.start_url, 0))
RunStart ==
    /\ pc = "run"
    /\ queue' = Append(queue, Entry(start_url, 0))
    /\ pc' = "while"
    /\ UNCHANGED <<config, robots_parser, visited, visited_urls, queue_lock,
                   visited_lock, pool, futures, n, cur, pending_links, writes,
                   level_steps, robots_response,
                   output, robots_txt, marked, call>>

\* run(): while self.queue: with self.queue_lock: futures = {}
WhileEnter ==
    /\ pc = "while"
    /\ queue # <<>>
    /\ queue_lock = Free
    /\ queue_lock' = Sched
    /\ futures' = {}
    /\ n' = Len(queue)
    /\ level_steps' = level_steps + 1
    /\ pc' = "drain"
    /\ UNCHANGED <<config, robots_parser, queue, visited, visited_urls,
                   visited_lock, pool, cur, pending_links, writes,
                   robots_response, output, robots_txt, marked, call>>

\* mutants of the drain test: depth compared with "<"; depth not compared
Admissible_OffByOne(e) ==
    e.depth < max_depth /\ should_visit(allowed_domain, visited_urls, e.url)

Admissible_NoDepth(e) ==
    should_visit(allowed_domain, visited_urls, e.url)

\* the test of the drain loop
Admissible(e) ==
    e.depth <= max_depth /\ should_visit(allowed_domain, visited_urls, e.url)

\* mutant of the drain: the completion loop is inside the queue_lock block,
\* the lock is still held when the drain ends
DrainStep_KeepsLock ==
    /\ pc = "drain"
    /\ n > 0
    /\ LET e == Head(queue) IN
         /\ queue' = Tail(queue)
         /\ IF Admissible(e)
            THEN /\ pool' = Append(pool, NewTask(e.url, e.depth))
                 /\ futures' = futures \cup {Len(pool) + 1}
            ELSE UNCHANGED <<pool, futures>>
    /\ n' = n - 1
    /\ IF n = 1
       THEN pc' = "wait"
       ELSE UNCHANGED pc
    /\ UNCHANGED <<config, robots_parser, visited, visited_urls, visited_lock,
                   queue_lock, cur, pending_links, writes, level_steps,
                   robots_response, output, robots_txt, marked, call>>

\* run(): one iteration of "for _ in range(len(self.queue))"; the last one
\* leaves the queue_lock block
DrainStep ==
    /\ pc = "drain"
    /\ n > 0
    /\ LET e == Head(queue) IN
         /\ queue' = Tail(queue)
         /\ IF Admissible(e)
            THEN /\ pool' = Append(pool, NewTask(e.url, e.depth))
                 /\ futures' = futures \cup {Len(pool) + 1}
            ELSE UNCHANGED <<pool, futures>>
    /\ n' = n - 1
    /\ IF n = 1
       THEN queue_lock' = Free /\ pc' = "wait"
       ELSE UNCHANGED <<queue_lock, pc>>
    /\ UNCHANGED <<config, robots_parser, visited, visited_urls, visited_lock,
                   cur, pending_links, writes, level_steps, robots_response,
                   output, robots_txt, marked, call>>

\* mutant of the executor: a thread is started for every work item
StartTask_Unbounded(i) ==
    /\ pool[i].pc = "queued"
    /\ \A j \in 1..(i - 1) : pool[j].pc # "queued"
    /\ pool' = [pool EXCEPT ![i].pc = "fetch"]
    /\ UNCHANGED <<config, robots_parser, queue, visited, visited_urls,
                   queue_lock,
                   visited_lock, schedVars, writes, level_steps,
                   robots_response, output, robots_txt, marked, call>>

\* the executor hands the oldest waiting work item to an idle worker thread
StartTask(i) ==
    /\ pool[i].pc = "queued"
    /\ Running < max_workers
    /\ \A j \in 1..(i - 1) : pool[j].pc # "queued"
    /\ pool' = [pool EXCEPT ![i].pc = "fetch"]
    /\ UNCHANGED <<config, robots_parser, queue, visited, visited_urls,
                   queue_lock,
                   visited_lock, schedVars, writes, level_steps,
                   robots_response, output, robots_txt, marked, call>>

\* the robots test of _fetch
Blocked(u) == robots_parser.installed /\ ~is_allowed(robots_parser.rules, u, "*")

\* mutant of _fetch: the request is issued before the robots test
fetch_RequestFirst(t) ==
    IF web[t.url].status = "fail"
    THEN [t EXCEPT !.pc = "done", !.req = t.req + 1, !.err = "FetchError", !.result = {}]
    ELSE IF Blocked(t.url)
    THEN [t EXCEPT !.pc = "done", !.req = t.req + 1, !.err = "RobotsDisallowedError",
                   !.result = {}]
    ELSE [t EXCEPT !.pc = "lock", !.req = t.req + 1]

\* mutant of _fetch: a failed request is issued a second time
fetch_Retries(t) ==
    IF Blocked(t.url)
    THEN [t EXCEPT !.pc = "done", !.err = "RobotsDisallowedError", !.result = {}]
    ELSE IF web[t.url].status = "fail"
    THEN [t EXCEPT !.pc = "done", !.req = t.req + 2, !.err = "FetchError", !.result = {}]
    ELSE [t EXCEPT !.pc = "lock", !.req = t.req + 1]

\* mutant of _fetch: a failed request is logged and a value returned
fetch_ReturnsNone(t) ==
    IF Blocked(t.url)
    THEN [t EXCEPT !.pc = "done", !.err = "RobotsDisallowedError", !.result = {}]
    ELSE [t EXCEPT !.pc = "lock", !.req = t.req + 1]

\* crawl(): html_content = self._fetch(url), and the except clause around it
fetch(t) ==
    IF Blocked(t.url)
    THEN [t EXCEPT !.pc = "done", !.err = "RobotsDisallowedError", !.result = {}]
    ELSE IF web[t.url].status = "fail"
    THEN [t EXCEPT !.pc = "done", !.req = t.req + 1, !.err = "FetchError", !.result = {}]
    ELSE [t EXCEPT !.pc = "lock", !.req = t.req + 1]

Fetch(i) ==
    /\ pool[i].pc = "fetch"
    /\ pool' = [pool EXCEPT ![i] = fetch(pool[i])]
    /\ UNCHANGED <<config, robots_parser, queue, visited, visited_urls,
                   queue_lock,
                   visited_lock, schedVars, writes, level_steps,
                   robots_response, output, robots_txt, marked, call>>

\* crawl(): with self.visited_lock:
AcquireVisited(i) ==
    /\ pool[i].pc = "lock"
    /\ visited_lock = Free
    /\ visited_lock' = i
    /\ pool' = [pool EXCEPT ![i].pc = "mark"]
    /\ UNCHANGED <<config, robots_parser, queue, visited, visited_urls,
                   queue_lock,
                   schedVars, writes, level_steps, robots_response, output,
                   robots_txt, marked, call>>

\* mutant of the critical section: the visited_lock block ends after
\* mark_visited, visited.add runs outside it
MarkVisited_LeavesBlock(i) ==
    /\ pool[i].pc = "mark"
    /\ visited_urls' = mark_visited(visited_urls, pool[i].url)
    /\ marked' = marked \cup {pool[i].url}
    /\ visited_lock' = Free
    /\ pool' = [pool EXCEPT ![i].pc = "add"]
    /\ UNCHANGED <<config, robots_parser, queue, visited, queue_lock,
                   schedVars, writes, level_steps, robots_response, output,
                   robots_txt, call>>

\* crawl(): self.url_manager.mark_visited(url)
MarkVisited(i) ==
    /\ pool[i].pc = "mark"
    /\ visited_urls' = mark_visited(visited_urls, pool[i].url)
    /\ marked' = marked \cup {pool[i].url}
    /\ pool' = [pool EXCEPT ![i].pc = "add"]
    /\ UNCHANGED <<config, robots_parser, queue, visited, queue_lock,
                   visited_lock,
                   schedVars, writes, level_steps, robots_response, output,
                   robots_txt, call>>

\* mutant of the critical section: the visited_lock is not released
AddVisited_NoRelease(i) ==
    /\ pool[i].pc = "add"
    /\ visited' = visited \cup {pool[i].url}
    /\ pool' = [pool EXCEPT ![i].pc = "parse"]
    /\ UNCHANGED <<config, robots_parser, queue, visited_urls, queue_lock,
                   visited_lock, schedVars, writes, level_steps,
                   robots_response, output, robots_txt, marked, call>>

\* crawl(): self.visited.add(url), leaving the visited_lock block
AddVisited(i) ==
    /\ pool[i].pc = "add"
    /\ visited' = visited \cup {pool[i].url}
    /\ visited_lock' = Free
    /\ pool' = [pool EXCEPT ![i].pc = "parse"]
    /\ UNCHANGED <<config, robots_parser, queue, visited_urls, queue_lock,
                   schedVars, writes, level_steps, robots_response, output,
                   robots_txt, marked, call>>

\* crawl(): links = parse_links(html_content, url); return links.
\* parse_links raises InvalidHTMLContentError on empty text.
parse(t) ==
    IF web[t.url].status = "empty"
    THEN [t EXCEPT !.pc = "done", !.err = "InvalidHTMLContentError"]
    ELSE [t EXCEPT !.pc = "done", !.result = web[t.url].links]

ParseLinks(i) ==
    /\ pool[i].pc = "parse"
    /\ pool' = [pool EXCEPT ![i] = parse(pool[i])]
    /\ UNCHANGED <<config, robots_parser, queue, visited, visited_urls,
                   queue_lock,
                   visited_lock, schedVars, writes, level_steps,
                   robots_response, output, robots_txt, marked, call>>

\* a work item whose exception crawl() did not catch: future.result() raises
Raises(t) == t.err \notin {"none", "RobotsDisallowedError", "FetchError"}

\* mutant of the completion loop: an exception of future.result() is not
\* caught and ends run()
TakeCompleted_Propagates ==
    /\ pc = "wait"
    /\ \E f \in futures :
         /\ pool[f].pc = "done"
         /\ IF Raises(pool[f])
            THEN /\ pc' = "done"
                 /\ UNCHANGED <<queue_lock, cur, pending_links, futures>>
            ELSE IF pool[f].result = {}
            THEN /\ futures' = futures \ {f}
                 /\ UNCHANGED <<queue_lock, cur, pending_links, pc>>
            ELSE /\ queue_lock = Free
                 /\ queue_lock' = Sched
                 /\ cur' = f
                 /\ pending_links' = pool[f].result
                 /\ pc' = "enqueue"
                 /\ UNCHANGED futures
    /\ UNCHANGED <<config, robots_parser, queue, visited, visited_urls,
                   visited_lock, pool, n, writes, level_steps,
                   robots_response, output, robots_txt, marked,
                   call>>

\* mutant of the completion loop: the URL of a work item that raised is
\* taken out of the visited set
TakeCompleted_Discards ==
    /\ pc = "wait"
    /\ \E f \in futures :
         /\ pool[f].pc = "done"
         /\ IF Raises(pool[f])
            THEN /\ futures' = futures \ {f}
                 /\ visited' = visited \ {pool[f].url}
                 /\ UNCHANGED <<queue_lock, cur, pending_links, pc>>
            ELSE IF pool[f].result = {}
            THEN /\ futures' = futures \ {f}
                 /\ UNCHANGED <<visited, queue_lock, cur, pending_links, pc>>
            ELSE /\ queue_lock = Free
                 /\ queue_lock' = Sched
                 /\ cur' = f
                 /\ pending_links' = pool[f].result
                 /\ pc' = "enqueue"
                 /\ UNCHANGED <<visited, futures>>
    /\ UNCHANGED <<config, robots_parser, queue, visited_urls,
                   visited_lock, pool, n, writes, level_steps,
                   robots_response, output, robots_txt, marked, call>>

\* run(): as_completed yields a finished future; future.result(); a future
\* that raised or returned no links is popped at once, otherwise the
\* queue_lock block is entered
TakeCompleted ==
    /\ pc = "wait"
    /\ \E f \in futures :
         /\ pool[f].pc = "done"
         /\ IF Raises(pool[f]) \/ pool[f].result = {}
            THEN /\ futures' = futures \ {f}
                 /\ UNCHANGED <<queue_lock, cur, pending_links, pc>>
            ELSE /\ queue_lock = Free
                 /\ queue_lock' = Sched
                 /\ cur' = f
                 /\ pending_links' = pool[f].result
                 /\ pc' = "enqueue"
                 /\ UNCHANGED futures
    /\ UNCHANGED <<config, robots_parser, queue, visited, visited_urls,
                   visited_lock, pool, n, writes, level_steps,
                   robots_response, output, robots_txt, marked, call>>

\* the test of the enqueue loop
Enqueueable(link) ==
    link \notin visited /\ should_visit(allowed_domain, visited_urls, link)

\* mutant of the enqueue loop: the link is appended with the depth of the
\* page it was found on
EnqueueLink_SameDepth ==
    /\ pc = "enqueue"
    /\ visited_lock = Free
    /\ \E link \in pending_links :
         /\ queue' = IF Enqueueable(link)
                     THEN Append(queue, Entry(link, pool[cur].depth))
                     ELSE queue
         /\ pending_links' = pending_links \ {link}
         /\ IF pending_links = {link}
            THEN /\ queue_lock' = Free
                 /\ futures' = futures \ {cur}
                 /\ cur' = 0
                 /\ pc' = "wait"
            ELSE UNCHANGED <<queue_lock, futures, cur, pc>>
    /\ UNCHANGED <<config, robots_parser, visited, visited_urls, visited_lock,
                   pool, n, writes, level_steps, robots_response, output,
                   robots_txt, marked, call>>

\* run(): one iteration of "for link in links" (a set: any order), inside
\* its own visited_lock block; the last one leaves the queue_lock block and
\* pops the future
EnqueueLink ==
    /\ pc = "enqueue"
    /\ visited_lock = Free
    /\ \E link \in pending_links :
         /\ queue' = IF Enqueueable(link)
                     THEN Append(queue, Entry(link, pool[cur].depth + 1))
                     ELSE queue
         /\ pending_links' = pending_links \ {link}
         /\ IF pending_links = {link}
            THEN /\ queue_lock' = Free
                 /\ futures' = futures \ {cur}
                 /\ cur' = 0
                 /\ pc' = "wait"
            ELSE UNCHANGED <<queue_lock, futures, cur, pc>>
    /\ UNCHANGED <<config, robots_parser, visited, visited_urls, visited_lock,
                   pool, n, writes, level_steps, robots_response, output,
                   robots_txt, marked, call>>

\* mutant of the barrier: the level is left without waiting for its futures
LevelDone_NoWait ==
    /\ pc = "wait"
    /\ pc' = "while"
    /\ UNCHANGED <<config, robots_parser, queue, visited, visited_urls,
                   queue_lock,
                   visited_lock, pool, futures, n, cur, pending_links, writes,
                   level_steps, robots_response,
                   output, robots_txt, marked, call>>

\* run(): as_completed is exhausted; back to the while test
LevelDone ==
    /\ pc = "wait"
    /\ futures = {}
    /\ pc' = "while"
    /\ UNCHANGED <<config, robots_parser, queue, visited, visited_urls,
                   queue_lock,
                   visited_lock, pool, futures, n, cur, pending_links, writes,
                   level_steps, robots_response,
                   output, robots_txt, marked, call>>

\* mutant of the loop: "if" for "while", the loop is left after one level
WhileExit_AfterFirstLevel ==
    /\ pc = "while"
    /\ (queue = <<>> \/ pool # <<>>)
    /\ pc' = "shutdown"
    /\ UNCHANGED <<config, robots_parser, queue, visited, visited_urls,
                   queue_lock,
                   visited_lock, pool, futures, n, cur, pending_links, writes,
                   level_steps, robots_response,
                   output, robots_txt, marked, call>>

\* run(): the while test fails; the executor block is left
WhileExit ==
    /\ pc = "while"
    /\ queue = <<>>
    /\ pc' = "shutdown"
    /\ UNCHANGED <<config, robots_parser, queue, visited, visited_urls,
                   queue_lock,
                   visited_lock, pool, futures, n, cur, pending_links, writes,
                   level_steps, robots_response,
                   output, robots_txt, marked, call>>

\* ThreadPoolExecutor.__exit__: shutdown(wait=True)
Shutdown ==
    /\ pc = "shutdown"
    /\ \A i \in DOMAIN pool : pool[i].pc = "done"
    /\ pc' = "write"
    /\ UNCHANGED <<config, robots_parser, queue, visited, visited_urls,
                   queue_lock,
                   visited_lock, pool, futures, n, cur, pending_links, writes,
                   level_steps, robots_response,
                   output, robots_txt, marked, call>>

\* Crawler.write_urls_to_file
WriteUrlsToFile ==
    /\ pc = "write"
    /\ writes' = writes + 1
    /\ output' = sorted(visited)
    /\ pc' = "done"
    /\ UNCHANGED <<config, robots_parser, queue, visited, visited_urls,
                   queue_lock,
                   visited_lock, pool, futures, n, cur, pending_links,
                   level_steps,
                   robots_response, robots_txt, marked, call>>

Worker ==
    \E i \in DOMAIN pool :
        \/ StartTask(i)
        \/ Fetch(i)
        \/ AcquireVisited(i)
        \/ MarkVisited(i)
        \/ AddVisited(i)
        \/ ParseLinks(i)

Next ==
    \/ LoadRobotsTxt
    \/ RunStart
    \/ WhileEnter
    \/ DrainStep
    \/ TakeCompleted
    \/ EnqueueLink
    \/ LevelDone
    \/ WhileExit
    \/ Shutdown
    \/ WriteUrlsToFile
    \/ Worker

Spec == Init /\ [][Next]_vars

\* every fetch returns and no thread is starved: whenever some thread can
\* take a step, a step is taken
LiveSpec == Spec /\ WF_vars(Next)

\* ------------------------------------------- a stand-alone URLManager
\* the Crawler's fields at rest
Idle ==
    /\ web = Graph1
    /\ start_url = S
    /\ max_depth = 0
    /\ max_workers = 1
    /\ queue = <<>>
    /\ visited = {}
    /\ queue_lock = Free
    /\ visited_lock = Free
    /\ pool = <<>>
    /\ futures = {}
    /\ pc = "idle"
    /\ n = 0
    /\ cur = 0
    /\ pending_links = {}
    /\ writes = 0
    /\ level_steps = 0
    /\ robots_response = NoResponse
    /\ output = <<>>

crawlerVars == <<web, start_url, max_depth, max_workers, queue, visited,
                 queue_lock, visited_lock, pool, futures, pc, n, cur,
                 pending_links, writes, level_steps, robots_response, output>>

\* URLManager.__init__
InitUM ==
    /\ Idle
    /\ allowed_domain \in {Dom, Sub, Other}
    /\ visited_urls = {}
    /\ marked = {}
    /\ robots_parser = None
    /\ robots_txt = <<>>
    /\ call = NoCall

UMShouldVisit ==
    /\ \E u \in URLs :
          call' = [op |-> "should_visit", url |-> u,
                   ret |-> should_visit(allowed_domain, visited_urls, u)]
    /\ UNCHANGED <<crawlerVars, allowed_domain, visited_urls, marked,
                   robots_parser, robots_txt>>

UMMarkVisited ==
    /\ \E u \in URLs :
          /\ visited_urls' = mark_visited(visited_urls, u)
          /\ marked' = marked \cup {u}
          /\ call' = [op |-> "mark_visited", url |-> u, before |-> visited_urls]
    /\ UNCHANGED <<crawlerVars, allowed_domain, robots_parser, robots_txt>>

\* mutant of add_links: the links returned are claimed
UMAddLinks_Claims ==
    /\ \E ls \in SUBSET URLs :
          /\ call' = [op |-> "add_links", links |-> ls,
                      ret |-> add_links(allowed_domain, visited_urls, ls),
                      before |-> visited_urls]
          /\ visited_urls' = visited_urls \cup
                                add_links(allowed_domain, visited_urls, ls)
    /\ UNCHANGED <<crawlerVars, allowed_domain, marked, robots_parser,
                   robots_txt>>

\* URLManager.add_links
UMAddLinks ==
    /\ \E ls \in SUBSET URLs :
          call' = [op |-> "add_links", links |-> ls,
                   ret |-> add_links(allowed_domain, visited_urls, ls),
                   before |-> visited_urls]
    /\ UNCHANGED <<crawlerVars, allowed_domain, visited_urls, marked,
                   robots_parser, robots_txt>>

NextUM ==
    \/ UMShouldVisit
    \/ UMMarkVisited
    \/ UMAddLinks

SpecUM == InitUM /\ [][NextUM]_vars

\* ----------------------------------------- a stand-alone RobotsParser
PrivatePath == <<"/", "p", "r", "i", "v", "a", "t", "e">>
PrivateX    == Url("example.com", PrivatePath \o <<"/", "x">>)
Public      == Url("example.com", <<"/", "p", "u", "b", "l", "i", "c">>)

RobotsURLs == {S, A, B, C, PrivateX, Public}
Agents     == {"*", "bot", "other"}

RobotsLines ==
    {UALine("*"), UALine("bot"), BlankLine,
     DisLine(PrivatePath), DisLine(<<"/", "a">>), DisLine(<<"/", ".">>),
     DisLine(<<>>)}

RobotsDocs == UNION {[1..k -> RobotsLines] : k \in 0..MaxLines}

InitRP ==
    /\ Idle
    /\ allowed_domain = Dom
    /\ visited_urls = {}
    /\ marked = {}
    /\ robots_parser = None
    /\ robots_txt = <<>>
    /\ call = NoCall

\* RobotsParser.__init__
RPConstruct ==
    /\ ~robots_parser.installed
    /\ \E doc \in RobotsDocs :
          /\ robots_parser' = RobotsParser(doc)
          /\ robots_txt' = doc
    /\ call' = [op |-> "RobotsParser"]
    /\ UNCHANGED <<crawlerVars, allowed_domain, visited_urls, marked>>

RPIsAllowed ==
    /\ robots_parser.installed
    /\ \E u \in RobotsURLs, agent \in Agents :
          call' = [op |-> "is_allowed", url |-> u, user_agent |-> agent,
                   ret |-> is_allowed(robots_parser.rules, u, agent)]
    /\ UNCHANGED <<crawlerVars, allowed_domain, visited_urls, marked,
                   robots_parser, robots_txt>>

NextRP ==
    \/ RPConstruct
    \/ RPIsAllowed

SpecRP == InitRP /\ [][NextRP]_vars

\* ================================================================ claims
Tasks == DOMAIN pool

\* crawl tasks dispatched for u, and page requests issued for u, so far
Dispatched(u) == Cardinality({i \in Tasks : pool[i].url = u})
Requested(u)  ==
    Cardinality({p \in Tasks \X (1..2) : pool[p[1]].url = u /\ p[2] <= pool[p[1]].req})

\* C1: during one crawl every URL is dispatched at most once and requested
\* at most once, also when it is linked from several pages of one level.
C1_FetchedAtMostOnce ==
    \A u \in URLs : Dispatched(u) <= 1 /\ Requested(u) <= 1

\* C2: strict level order: whenever a crawl task of some depth has been
\* dispatched, every crawl task of a smaller depth has completed (so no
\* depth d+1 task is dispatched, and no depth d+1 URL fetched, while a depth
\* d task is unfinished); tasks of one depth are not ordered.
C2_LevelOrder ==
    \A i, j \in Tasks :
        pool[i].depth < pool[j].depth => pool[i].pc = "done"

\* two tasks of one level completed against their submit order, and a task
\* of the next level has been dispatched
C2_Witness ==
    \E i, j, k \in Tasks :
        /\ i < j
        /\ pool[i].depth = pool[j].depth
        /\ pool[k].depth = pool[i].depth + 1
        /\ pool[k].pc # "done"
        /\ \E g \in Tasks : pool[g].depth = pool[i].depth /\ pool[g].result # {}

\* the disallow paths the claim assigns to agent's group: those whose
\* nearest preceding User-agent line names agent ("*" when none precedes)
GroupAgent(doc, k) ==
    LET uas == {m \in 1..(k - 1) : doc[m].kind = "user-agent"}
    IN  IF uas = {} THEN "*"
        ELSE doc[CHOOSE m \in uas : \A m2 \in uas : m2 <= m].value

ClaimGroup(doc, agent) ==
    {doc[k].value : k \in {m \in 1..Len(doc) :
                              doc[m].kind = "disallow" /\ GroupAgent(doc,
                              m) = agent}}

StartsWith(path, prefix) ==
    /\ Len(prefix) <= Len(path)
    /\ SubSeq(path, 1, Len(prefix)) = prefix

Literal(doc) ==
    \A k \in 1..Len(doc) :
        doc[k].kind = "disallow" =>
            /\ doc[k].value # <<>>
            /\ \A m \in 1..Len(doc[k].value) : doc[k].value[m] # "."

\* C3: each Disallow path belongs to the group opened by the nearest
\* preceding User-agent line: is_allowed(url, A) is false exactly when the
\* path of url starts with a Disallow path of A's group (stated for
\* documents whose paths are plain, non-empty text).
C3_GroupSemantics ==
    (call.op = "is_allowed" /\ Literal(robots_txt)) =>
        call.ret = ~(\E p \in ClaimGroup(robots_txt, call.user_agent) :
                        StartsWith(Path(call.url), p))

\* C4: with a policy loaded that rejects U, no request for U is issued: a
\* task for U never gets past the policy test, and it ends with an empty
\* link set.
C4_RobotsBeforeRequest ==
    \A i \in Tasks :
        Blocked(pool[i].url) =>
            /\ pool[i].req = 0
            /\ pool[i].pc \in {"queued", "fetch", "done"}
            /\ pool[i].pc = "done" =>
                  pool[i].result = {} /\ pool[i].err = "RobotsDisallowedError"

C4_Witness ==
    \E i \in Tasks : Blocked(pool[i].url) /\ pool[i].pc = "done"

\* a page the crawl can fetch
Fetchable(u) ==
    Netloc(u) = allowed_domain /\ ~Blocked(u) /\ web[u].status # "fail"

Failed(t)    == t.pc = "done" /\ t.err # "none"
Succeeded(t) == t.pc = "done" /\ t.err = "none"

\* C5: when a task failed, the run still ends with every task complete and
\* the output written; every page crawled successfully is in the visited
\* set, so is every fetchable page it links to (within the depth limit),
\* and a URL whose fetch failed is not.
C5_FailureIsolation ==
    (pc = "done" /\ \E i \in Tasks : Failed(pool[i])) =>
        /\ writes = 1
        /\ \A i \in Tasks : pool[i].pc = "done"
        /\ \A i \in Tasks :
              Succeeded(pool[i]) =>
                 /\ pool[i].url \in visited
                 /\ pool[i].depth < max_depth =>
                       \A v \in pool[i].result : Fetchable(v) => v \in visited
        /\ \A i \in Tasks :
              pool[i].err \in {"FetchError", "RobotsDisallowedError"} =>
                 pool[i].url \notin visited

\* a level in which one task failed and another succeeded, whose link was
\* crawled successfully at the next level
C5_Witness ==
    /\ pc = "done"
    /\ \E i, j, k \in Tasks :
          /\ pool[i].depth = pool[j].depth
          /\ pool[i].err = "FetchError"
          /\ Succeeded(pool[j])
          /\ pool[k].depth = pool[j].depth + 1
          /\ pool[k].url \in pool[j].result
          /\ Succeeded(pool[k])
          /\ pool[k].url \in visited

\* C6: every URL dispatched, visited or in the frontier has the netloc of
\* the seed URL.
C6_DomainScope ==
    LET host == Netloc(start_url) IN
    /\ \A i \in Tasks : Netloc(pool[i].url) = host
    /\ \A u \in visited \cup visited_urls : Netloc(u) = host
    /\ \A k \in 1..Len(queue) : Netloc(queue[k].url) = host

\* the links of a page that links out of the domain have been enqueued
C6_Witness ==
    \E i \in Tasks :
        /\ pool[i].pc = "done"
        /\ \E v \in pool[i].result : Netloc(v) # Netloc(start_url)
        /\ i \notin futures
        /\ \E k \in 1..Len(queue) : queue[k].url \in pool[i].result

\* C7: should_visit(U) is true iff netloc(U) is the manager's domain and
\* mark_visited(U) has not been called.
C7_ShouldVisit ==
    call.op = "should_visit" =>
        call.ret = (Netloc(call.url) = allowed_domain /\ call.url \notin marked)

\* with domain monzo.com and some URL marked, an unmarked in-domain URL
C7_Witness ==
    /\ call.op = "should_visit"
    /\ allowed_domain = Dom
    /\ marked # {}
    /\ call.ret

\* C8: the output is written at most once, only with the frontier empty and
\* every dispatched task complete, and it has been written when run ends.
C8_WriteOnce ==
    /\ writes <= 1
    /\ writes = 1 =>
          /\ queue = <<>>
          /\ futures = {}
          /\ \A i \in Tasks : pool[i].pc = "done"
    /\ pc = "done" => writes = 1

C8_Witness ==
    /\ writes = 1
    /\ Cardinality(Tasks) >= 3

\* the links a successfully fetched page yields
Out(u) == IF web[u].status = "ok" THEN web[u].links ELSE {}

\* reference: pages reachable from the seed in at most k hops through
\* fetchable pages
RECURSIVE Reach(_)
Reach(k) ==
    IF k = 0 THEN {u \in {start_url} : Fetchable(u)}
    ELSE LET r == Reach(k - 1)
         IN  r \cup {v \in URLs : Fetchable(v) /\ \E u \in r : v \in Out(u)}

\* C9: at the end of run the visited set is the set of in-domain URLs
\* reachable from the seed in at most max_depth hops through robots-allowed,
\* successfully fetched pages.
C9_Completeness ==
    pc = "done" => visited = Reach(max_depth)

\* a crawl that visited several pages, met a page it could not fetch and
\* left a fetchable page out
C9_Witness ==
    /\ pc = "done"
    /\ Cardinality(visited) >= 2
    /\ \E i \in Tasks : Failed(pool[i])
    /\ \E v \in Pages \ visited : Fetchable(v)

\* C10: no task is dispatched for an entry deeper than max_depth; no entry
\* deeper than max_depth+1 is ever enqueued; with max_depth = 0 only the
\* seed is dispatched and fetched.
C10_DepthBound ==
    /\ \A i \in Tasks : pool[i].depth <= max_depth
    /\ \A k \in 1..Len(queue) : queue[k].depth <= max_depth + 1
    /\ max_depth = 0 => \A i \in Tasks : pool[i].url = start_url

\* an entry of depth max_depth+1 is being dropped at the drain
C10_Witness ==
    /\ pc = "drain"
    /\ Head(queue).depth = max_depth + 1
    /\ Head(queue).url \notin visited_urls

\* C11: for every link graph (cycles and self-links included) and every
\* max_depth, the run eventually has the frontier empty, the loop left after
\* at most max_depth+2 level steps, and the output written.
C11_Termination ==
    <>(/\ pc = "done"
       /\ queue = <<>>
       /\ writes = 1
       /\ level_steps <= max_depth + 2)

\* a crawl of a graph with a cycle has ended after max_depth+2 level steps
C11_Witness ==
    /\ pc = "done"
    /\ level_steps = max_depth + 2
    /\ \E u \in visited : \E v \in Out(u) : v \in visited /\ u \in Out(v)

Fetched(t) == t.pc \notin {"queued", "fetch"}

C14_MarkVisitedIdempotent ==
    /\ call.op = "mark_visited" =>
          /\ call.url \in visited_urls
          /\ visited_urls = call.before \cup {call.url}
          /\ call.url \in call.before => visited_urls = call.before
    /\ \A u \in URLs :
          mark_visited(mark_visited(visited_urls, u), u) =
             mark_visited(visited_urls, u)
    /\ (call.op = "should_visit" /\ call.url \in marked) => ~call.ret

\* a second mark_visited of a URL, with another URL marked too
C14_Witness ==
    /\ call.op = "mark_visited"
    /\ call.url \in call.before
    /\ Cardinality(visited_urls) >= 2

\* C15: a call of add_links returns exactly the links of its input that are
\* in the manager's domain and not marked visited, and it changes neither
\* visited_urls nor allowed_domain, so the same call on the state it leaves
\* returns the same set.
C15_AddLinksClaimsNothing ==
    [][call'.op = "add_links" =>
          /\ call'.ret = {l \in call'.links :
                             Netloc(l) = allowed_domain /\ l \notin marked}
          /\ visited_urls' = visited_urls
          /\ allowed_domain' = allowed_domain
          /\ add_links(allowed_domain', visited_urls', call'.links) = call'.ret
      ]_vars

\* add_links has dropped a visited link and an out-of-domain link and
\* returned the rest
C15_Witness ==
    /\ call.op = "add_links"
    /\ call.ret # {}
    /\ \E l \in call.links : l \in marked
    /\ \E l \in call.links : Netloc(l) # allowed_domain

\* lexicographic order of strings: at the first position where they differ
\* s has the smaller character, or s is a proper prefix of t
LexLess(s, t) ==
    \E k \in 1..Len(t) :
        /\ k <= Len(s) + 1
        /\ \A m \in 1..(k - 1) : s[m] = t[m]
        /\ (k = Len(s) + 1 \/ CharRank(s[k]) < CharRank(t[k]))

\* C16: the lines written are exactly the visited URLs, each on exactly one
\* line however often it was discovered or dispatched, in strictly ascending
\* lexicographic order.
C16_OutputIsVisited ==
    writes = 1 =>
        /\ {output[k] : k \in 1..Len(output)} = visited
        /\ Len(output) = Cardinality(visited)
        /\ \A k \in 1..(Len(output) - 1) :
              LexLess(Str(output[k]), Str(output[k + 1]))

\* the output has at least three lines and one of its URLs was dispatched
\* twice
C16_Witness ==
    /\ writes = 1
    /\ Len(output) >= 3
    /\ \E u \in visited : Dispatched(u) >= 2

\* a work item whose call of _fetch issued a request that raised
RequestRaised(t) ==
    Fetched(t) /\ ~Blocked(t.url) /\ web[t.url].status = "fail"

C18_ClaimAtDispatch ==
    \A i \in Tasks :
        pool[i].pc # "done" =>
            /\ pool[i].url \in visited
            /\ pool[i].url \in visited_urls
            /\ ~should_visit(allowed_domain, visited_urls, pool[i].url)

\* C19: a task that ended in RobotsDisallowedError or FetchError returned no
\* links, and no task for its URL is dispatched at a later level.
C19_FailureTerminal ==
    \A i \in Tasks :
        pool[i].err \in {"RobotsDisallowedError", "FetchError"} =>
            /\ pool[i].result = {}
            /\ \A j \in Tasks :
                  pool[j].url = pool[i].url => pool[j].depth <= pool[i].depth

\* C20: a worker is between its mark_visited and visited.add only while it
\* holds the visited_lock, and the scheduler is never at a should_visit test
\* of the drain loop while a worker is at its mark_visited.
C20_LockDiscipline ==
    /\ \A i \in Tasks : pool[i].pc \in {"mark", "add"} => visited_lock = i
    /\ pc = "drain" => \A i \in Tasks : pool[i].pc # "mark"

\* C21: against the rules mapping of the parser, is_allowed(url, agent) is
\* true when the mapping has no entry for exactly that agent, and otherwise
\* true iff no path stored for the agent is a prefix of the URL's path (an
\* empty stored path is a prefix of every path).
C21_PrefixMatching ==
    call.op = "is_allowed" =>
        call.ret =
           (IF call.user_agent \in DOMAIN robots_parser.rules
            THEN \A p \in robots_parser.rules[call.user_agent] :
                    ~StartsWith(Path(call.url), p)
            ELSE TRUE)

\* a work item whose fetch returned content
FetchReturned(t) ==
    /\ t.pc \in {"lock", "mark", "add", "parse", "done"}
    /\ t.req = 1
    /\ t.err \notin {"FetchError", "RobotsDisallowedError"}

\* a work item past its visited.add
Inserted(t) == FetchReturned(t) /\ t.pc \in {"parse", "done"}

\* C22: the visited set is the set of URLs of the work items that are past
\* their visited.add, which comes after a fetch that returned content and
\* before parse_links: a URL is inserted only by such a work item, one whose
\* fetch raised inserts nothing, the URL stays when parse_links raises, and
\* no URL is ever removed.
C22_VisitedIsFetched ==
    /\ [](visited = {pool[i].url : i \in {j \in Tasks : Inserted(pool[j])}})
    /\ [][/\ visited \subseteq visited'
           /\ visited' # visited =>
                 \E i \in Tasks :
                    /\ FetchReturned(pool[i])
                    /\ pool[i].pc = "add"
                    /\ pool'[i].pc = "parse"
                    /\ visited' = visited \cup {pool[i].url}]_vars

\* parse_links raised for a page that is in the visited set, and a URL whose
\* fetch raised is not in it
C22_Witness ==
    \E i, j \in Tasks :
        /\ pool[i].err = "InvalidHTMLContentError"
        /\ pool[i].url \in visited
        /\ pool[j].err = "RobotsDisallowedError"
        /\ pool[j].url \notin visited
        /\ pc = "done"

\* how far a work item has got
Rank(t) ==
    CASE t.pc = "queued" -> 0 [] t.pc = "fetch" -> 1 [] t.pc = "lock" -> 2
      [] t.pc = "mark" -> 3 [] t.pc = "add" -> 4 [] t.pc = "parse" -> 5
      [] t.pc = "done" -> 6

\* C23: at most max_workers work items are executing at any time, however
\* many the level holds; the others wait, and each work item runs once: it
\* only moves forward, makes at most one request, and has completed when run
\* ends.
C23_BoundedPool ==
    /\ [](/\ Running <= max_workers
          /\ \A i \in Tasks : pool[i].req <= 1
          /\ pc \in {"write", "done"} => \A i \in Tasks : pool[i].pc = "done")
    /\ [][/\ Len(pool') >= Len(pool)
           /\ \A i \in Tasks :
                 /\ Rank(pool'[i]) >= Rank(pool[i])
                 /\ pool'[i].url = pool[i].url
                 /\ pool[i].pc = "done" => pool'[i] = pool[i]]_vars

\* both workers are busy and a dispatched work item waits
C23_Witness ==
    /\ max_workers = 2
    /\ Running = max_workers
    /\ \E i \in Tasks : pool[i].pc = "queued"

\* C24: whenever the visited_lock is free, Crawler.visited equals
\* url_manager.visited_urls.
C24_VisitedRecordsEqual ==
    visited_lock = Free => visited = visited_urls

\* the lock is free with two URLs recorded and a work item about to take it
C24_Witness ==
    /\ visited_lock = Free
    /\ Cardinality(visited) >= 2
    /\ \E i \in Tasks : pool[i].pc = "lock"

\* the scheduler thread is not waiting: for a lock, for a result, or for the
\* executor to shut down
SchedCanStep ==
    \/ pc \in {"construct", "run", "drain", "write"}
    \/ pc = "while" /\ (queue = <<>> \/ queue_lock = Free)
    \/ pc = "wait" /\
          (\/ futures = {}
           \/ \E f \in futures :
                 /\ pool[f].pc = "done"
                 /\ (Raises(pool[f]) \/ pool[f].result = {} \/ queue_lock = Free))
    \/ pc = "enqueue" /\ visited_lock = Free
    \/ pc = "shutdown" /\ \A i \in Tasks : pool[i].pc = "done"

\* work item i is not waiting: for the visited_lock or for an idle worker
WorkerCanStep(i) ==
    \/ pool[i].pc \in {"fetch", "mark", "add", "parse"}
    \/ pool[i].pc = "lock" /\ visited_lock = Free
    \/ /\ pool[i].pc = "queued"
       /\ Running < max_workers
       /\ \A j \in 1..(i - 1) : pool[j].pc # "queued"

\* C25: only the scheduler holds the queue_lock, and only inside the drain
\* and enqueue blocks (never while it waits for a result); only a worker
\* between its mark_visited and visited.add holds the visited_lock (never one
\* that is fetching); and until run has ended some thread is not waiting.
C25_DeadlockFree ==
    /\ queue_lock \in {Free, Sched}
    /\ queue_lock = Sched <=> pc \in {"drain", "enqueue"}
    /\ visited_lock \in {Free} \cup Tasks
    /\ \A i \in Tasks : visited_lock = i <=> pool[i].pc \in {"mark", "add"}
    /\ pc # "done" => (SchedCanStep \/ \E i \in Tasks : WorkerCanStep(i))

\* the scheduler, holding the queue_lock, and a worker both wait for the
\* visited_lock, which another worker holds
C25_Witness ==
    /\ pc = "enqueue"
    /\ visited_lock # Free
    /\ \E i \in Tasks : pool[i].pc = "lock"

\* every frontier entry has depth d
FrontierDepth(d) == \A k \in 1..Len(queue) : queue[k].depth = d

\* C26: at the start of a level step every frontier entry has the depth
\* given by the number of level steps completed (0 for the seed); during the
\* drain the frontier holds exactly the entries of that depth still to be
\* popped; while the level's futures are processed every entry it holds has
\* the next depth, one more than the depth of the level's tasks.  So the
\* frontier never holds two depths.
C26_UniformDepth ==
    /\ pc \in {"run", "while", "shutdown", "write", "done"} =>
          FrontierDepth(level_steps)
    /\ pc = "drain" => FrontierDepth(level_steps - 1) /\ Len(queue) = n
    /\ pc \in {"wait", "enqueue"} =>
          /\ FrontierDepth(level_steps)
          /\ \A f \in futures : pool[f].depth = level_steps - 1
    /\ \A k, m \in 1..Len(queue) : queue[k].depth = queue[m].depth

\* the third level step is about to start with two entries in the frontier
C26_Witness ==
    /\ pc = "while"
    /\ level_steps = 2
    /\ Len(queue) >= 2

=============================================================================
